---- MODULE Spec2Model ----
(***************************************************************************)
(* File Integrity Monitor (file_integrity_monitor.py).                     *)
(*                                                                         *)
(* Strings (paths, ignore patterns, digests, the JSON text of the state    *)
(* file) are sequences of one-character strings, so that relpath,          *)
(* basename, startswith, fnmatch and the JSON encoding are computed        *)
(* character by character as the code computes them.  A snapshot (a        *)
(* Python dict path -> digest) is a function from paths to digests.        *)
(***************************************************************************)
EXTENDS Naturals, Sequences, FiniteSets

\* ------------------------------------------------------------------ bounds
\* File contents are 1..MaxContent (0 stands for "no such file").
MaxContent == 2
\* Changes the environment makes to the tree while one scan runs (SpecScan).
MaxScanEnvSteps == 2
\* Scans of the test driver, and tree changes between them (SpecSeq).
MaxScans == 3
MaxSeqChanges == 3
\* Ticks of the monitor loop, and environment steps around them (Spec).
MaxTicks == 2
MaxEnvSteps == 2
\* Entries of a snapshot handed to save_state (SpecStore).
MaxStoreKeys == 2

\* ------------------------------------------------------------ string helpers
SLASH == "/"

StartsWith(s, prefix) ==
    /\ Len(prefix) <= Len(s)
    /\ SubSeq(s, 1, Len(prefix)) = prefix

EndsWith(s, c) == Len(s) > 0 /\ s[Len(s)] = c

\* Index of the last "/" of p, 0 when there is none.
LastSlash(p) ==
    LET idx == {i \in 1..Len(p) : p[i] = SLASH}
    IN  IF idx = {} THEN 0 ELSE CHOOSE i \in idx : \A j \in idx : j <= i

\* os.path.basename
Basename(p) == SubSeq(p, LastSlash(p) + 1, Len(p))

\* os.path.dirname (of a path with a "/" in it)
Dirname(p) == SubSeq(p, 1, LastSlash(p) - 1)

\* os.path.join(root, name) for a relative name
Join(root, name) == root \o <<SLASH>> \o name

\* os.path.relpath(path_abs, root_dir) for a path at or below root_dir,
\* followed by is_ignored's `if rel == ".": rel = ""`.
RelPath(path_abs, root_dir) ==
    IF path_abs = root_dir THEN <<>>
    ELSE SubSeq(path_abs, Len(root_dir) + 2, Len(path_abs))

\* str.strip() on a line (blanks are the only whitespace of the model).
RECURSIVE LStrip(_)
LStrip(s) == IF s # <<>> /\ Head(s) = " " THEN LStrip(Tail(s)) ELSE s

RECURSIVE RStrip(_)
RStrip(s) ==
    IF s # <<>> /\ s[Len(s)] = " " THEN RStrip(SubSeq(s, 1, Len(s) - 1)) ELSE s

Strip(s) == RStrip(LStrip(s))

\* fnmatch.fnmatch(name, pat): "*" matches any run of characters ("/" too),
\* "?" any one character, anything else itself.
RECURSIVE fnmatch(_, _)
fnmatch(name, pat) ==
    IF pat = <<>> THEN name = <<>>
    ELSE IF Head(pat) = "*"
         THEN fnmatch(name, Tail(pat)) \/ (name # <<>> /\ fnmatch(Tail(name), pat))
    ELSE IF Head(pat) = "?"
         THEN name # <<>> /\ fnmatch(Tail(name), Tail(pat))
    ELSE name # <<>> /\ Head(name) = Head(pat) /\ fnmatch(Tail(name), Tail(pat))

\* ---------------------------------------------------------------- constants
\* IGNORE_FILE = ".fimignore"
IGNORE_FILE == <<".", "f", "i", "m", "i", "g", "n", "o", "r", "e">>

\* The watched directory handed to scan_directory / main (args.directory).
directory == <<"/", "w">>

\* The tree below the watched directory: the directories and files that may
\* exist, as paths relative to the watched directory.
DirB == <<"b">>
DirBC == <<"b", "/", "c">>
DirPaths == {DirB, DirBC}

FileA == <<"a">>
FileBK == <<"b", "/", "k">>
FileBCK == <<"b", "/", "c", "/", "k">>
FileBIgn == <<"b", "/">> \o IGNORE_FILE
FilePaths == {FileA, FileBK, FileBCK, FileBIgn}

\* A fixed listing order (os.scandir's order is not specified).
FileOrder == <<FileA, FileBIgn, FileBK, FileBCK, IGNORE_FILE>>
DirOrder == <<DirB, DirBC>>

\* Hash algorithm names: two that hashlib.new accepts (of those whose
\* hexdigest() takes no length), one it rejects.
SupportedAlgorithms == {"sha256", "md5"}
Algorithms == SupportedAlgorithms \cup {"notahash"}

\* Lines of a .fimignore file.
LineDirB == <<"b", "/">>
LineNegBK == <<"!", "b", "/", "k">>
LineK == <<"k">>
LineComment == <<"#", "b">>
LineBlank == <<" ">>
LinePadA == <<" ", "a", " ">>
LineStarC == <<"*", "c">>

\* What stands for a missing file and for Python's None where a string
\* (a sequence of characters) may stand.
NoFile == <<"NoFile">>
None == <<"None">>

\* The contents a .fimignore in the watched directory may have.
RuleLines ==
    { <<LineComment, LineBlank>>,
      <<LineDirB>>,
      <<LineDirB, LineNegBK>>,
      <<LineComment, LineK>>,
      <<LinePadA, LineStarC>> }

\* The .fimignore of the watched directory: missing, or a file of lines.
NoRulesFile == [exists |-> FALSE, lines |-> <<>>]
RuleFiles == {[exists |-> TRUE, lines |-> l] : l \in RuleLines}

\* -------------------------------------------------------------------- state
VARIABLES
    \* the watched tree
    rootExists,          \* the watched directory exists
    dirs,                \* the subdirectories that exist (subset of DirPaths)
    files,               \* FilePaths -> 0..MaxContent, 0 = no such file
    unreadable,          \* files whose open() fails with PermissionError
    rules,               \* <directory>/.fimignore: [exists, lines]
    PATHSPEC_AVAILABLE,  \* whether `import pathspec` succeeded
    \* the working directory of the process
    stateFile,           \* text of file_hashes.json, or NoFile
    \* the running program
    args,                \* [init, hash]: the parsed command line
    pc,                  \* position of main / monitor / the test driver
    spc,                 \* position inside scan_directory
    ignore_spec,         \* scan_directory's ignore_spec
    walk,                \* os.walk's stack of directories still to list
    pending,             \* `files` of the directory being handled, not yet hashed
    file_hashes,         \* scan_directory's file_hashes
    raised,              \* the exception that ended the program, or "none"
    previous_state,      \* monitor's previous_state / the test's older snapshot
    current_state,       \* monitor's current_state / the test's newer snapshot
    changes,             \* [added, removed, modified] of the last compare_states
    \* bookkeeping of the verification
    scanlog,             \* what the running scan did: the directories it entered,
                         \* the files it listed, hashed or found gone, its last
                         \* hash_file call
    hist,                \* the tree as the last two scans found it at their start,
                         \* and `own`: what this monitor loaded or saved last
    steps                \* counters that bound the run

fsVars == <<rootExists, dirs, files, unreadable, rules, PATHSPEC_AVAILABLE>>
scanVars == <<spc, ignore_spec, walk, pending, file_hashes, scanlog>>
progVars == <<args, pc, raised, previous_state, current_state, changes>>
vars == <<fsVars, stateFile, scanVars, progVars, hist, steps>>

EmptySnapshot == [p \in {} |-> <<>>]

Put(m, k, v) == [p \in DOMAIN m \cup {k} |-> IF p = k THEN v ELSE m[p]]

NoChanges == [added |-> {}, removed |-> {}, modified |-> {}]

\* ------------------------------------------------------------------ hashing
HexChar(c) == <<"0", "1", "2", "3", "4", "5", "6", "7", "8", "9">>[c + 1]

\* h.hexdigest(): a hex string that identifies the content under the
\* algorithm (distinct contents get distinct digests, as do the algorithms).
hexdigest(algorithm, content) ==
    (IF algorithm = "sha256" THEN <<"e", "3">> ELSE <<"d", "4">>) \o <<HexChar(content)>>

\* The file at an absolute path as open() finds it.
FileContent(filepath) ==
    LET rel == RelPath(filepath, directory)
    IN  IF rootExists /\ rel \in FilePaths THEN files[rel] ELSE 0

\* open(filepath, "rb") raises FileNotFoundError / PermissionError
OpenError(filepath) ==
    IF FileContent(filepath) = 0 THEN "FileNotFoundError"
    ELSE IF RelPath(filepath, directory) \in unreadable THEN "PermissionError"
    ELSE "none"

\* hash_file with the except clause left out: the open() error propagates.
hash_file_uncaught(filepath, algorithm) ==
    IF algorithm \notin SupportedAlgorithms
    THEN [raised |-> "ValueError", value |-> None]
    ELSE IF OpenError(filepath) # "none"
    THEN [raised |-> OpenError(filepath), value |-> None]
    ELSE [raised |-> "none", value |-> hexdigest(algorithm, FileContent(filepath))]

\* hash_file with the algorithm checked only once the file is open.
hash_file_open_first(filepath, algorithm) ==
    IF OpenError(filepath) # "none"
    THEN [raised |-> "none", value |-> None]
    ELSE IF algorithm \notin SupportedAlgorithms
    THEN [raised |-> "ValueError", value |-> None]
    ELSE [raised |-> "none", value |-> hexdigest(algorithm, FileContent(filepath))]

\* hash_file(filepath, algorithm): hashlib.new first (ValueError for a name
\* it does not know), then open and read; a missing or unreadable file gives
\* None.
hash_file(filepath, algorithm) ==
    IF algorithm \notin SupportedAlgorithms
    THEN [raised |-> "ValueError", value |-> None]
    ELSE IF OpenError(filepath) \in {"FileNotFoundError", "PermissionError"}
    THEN [raised |-> "none", value |-> None]
    ELSE [raised |-> "none", value |-> hexdigest(algorithm, FileContent(filepath))]

\* ----------------------------------------------------------- ignore matcher
\* The lines load_ignore_spec keeps: stripped, non-empty, not a comment.
RECURSIVE KeptLines(_)
KeptLines(lns) ==
    IF lns = <<>> THEN <<>>
    ELSE LET ln == Strip(Head(lns))
         IN  IF ln # <<>> /\ ln[1] # "#"
             THEN <<ln>> \o KeptLines(Tail(lns))
             ELSE KeptLines(Tail(lns))

\* load_ignore_spec(directory): None without a .fimignore or without rules,
\* else the rules under the engine that is installed.
\* load_ignore_spec's (None, False): no rules.
NoRules == [engine |-> "none", lines |-> <<>>]

LoadIgnoreSpec(exists, lns, pathspec) ==
    IF ~exists \/ ~lns.exists THEN NoRules
    ELSE IF KeptLines(lns.lines) = <<>> THEN NoRules
    ELSE [engine |-> IF pathspec THEN "pathspec" ELSE "fnmatch",
          lines |-> KeptLines(lns.lines)]

load_ignore_spec == LoadIgnoreSpec(rootExists, rules, PATHSPEC_AVAILABLE)

\* A gitwildmatch "*" stays inside one path segment.
RECURSIVE GlobSeg(_, _)
GlobSeg(text, pat) ==
    IF pat = <<>> THEN text = <<>>
    ELSE IF Head(pat) = "*"
         THEN GlobSeg(text, Tail(pat))
              \/ (text # <<>> /\ Head(text) # SLASH /\ GlobSeg(Tail(text), pat))
    ELSE text # <<>> /\ Head(text) = Head(pat) /\ GlobSeg(Tail(text), Tail(pat))

\* One GitWildMatchPattern (without its leading "!") against a path: a
\* pattern with no inner "/" matches a segment at any depth, one with an
\* inner "/" is anchored at the root; what lies below a match is matched too,
\* and a trailing "/" asks for something to lie below.
GitPatternMatches(pat, path) ==
    LET dironly == EndsWith(pat, SLASH)
        core == IF dironly THEN SubSeq(pat, 1, Len(pat) - 1) ELSE pat
        anchored == \E i \in 1..Len(core) : core[i] = SLASH
    IN  \E i \in 1..Len(path) : \E j \in i..Len(path) :
            /\ i = 1 \/ path[i - 1] = SLASH
            /\ anchored => i = 1
            /\ GlobSeg(SubSeq(path, i, j), core)
            /\ IF dironly THEN j < Len(path) /\ path[j + 1] = SLASH
               ELSE j = Len(path) \/ path[j + 1] = SLASH

Negated(line) == line # <<>> /\ line[1] = "!"

PatternBody(line) == IF Negated(line) THEN Tail(line) ELSE line

\* PathSpec.match_file: the last pattern that matches decides.
match_file(lines, path) ==
    LET hits == {i \in 1..Len(lines) : GitPatternMatches(PatternBody(lines[i]), path)}
    IN  /\ hits # {}
        /\ ~Negated(lines[CHOOSE i \in hits : \A j \in hits : j <= i])

\* One pattern of the fnmatch fallback.
FallbackMatches(pat, rel, is_dir) ==
    \/ /\ EndsWith(pat, SLASH)
       /\ LET base == SubSeq(pat, 1, Len(pat) - 1)
          IN  \/ is_dir /\ (fnmatch(rel, base) \/ StartsWith(rel, base \o <<SLASH>>))
              \/ StartsWith(rel, base \o <<SLASH>>)
    \/ fnmatch(rel, pat)
    \/ fnmatch(Basename(rel), pat)

\* is_ignored(path_abs, root_dir, ignore, is_dir)
is_ignored(path_abs, root_dir, ignore, is_dir) ==
    IF ignore = NoRules THEN FALSE
    ELSE LET rel == RelPath(path_abs, root_dir)
         IN  IF ignore.engine = "pathspec"
             THEN \/ match_file(ignore.lines, rel)
                  \/ is_dir /\ match_file(ignore.lines, rel \o <<SLASH>>)
             ELSE \E i \in 1..Len(ignore.lines) :
                      FallbackMatches(ignore.lines[i], rel, is_dir)

\* ------------------------------------------------------------ snapshot store
QUOTE == "\""
BACKSLASH == "\\"
NEWLINE == "\n"

\* json.dump(..., indent=4)
JsonIndent == 4

Spaces(n) == [i \in 1..n |-> " "]

\* The JSON encoder escapes the quote, the backslash and the line break.
JsonEscapeChar(c) ==
    IF c \in {QUOTE, BACKSLASH} THEN <<BACKSLASH, c>>
    ELSE IF c = NEWLINE THEN <<BACKSLASH, "n">>
    ELSE <<c>>

RECURSIVE JsonEscape(_)
JsonEscape(s) ==
    IF s = <<>> THEN <<>> ELSE JsonEscapeChar(Head(s)) \o JsonEscape(Tail(s))

JsonString(s) == <<QUOTE>> \o JsonEscape(s) \o <<QUOTE>>

\* The members of the object, one per line (the dict's own order is not
\* kept by the model: the keys are written in some fixed order).
RECURSIVE JsonMembers(_, _, _)
JsonMembers(m, keys, first) ==
    IF keys = {} THEN <<>>
    ELSE LET k == CHOOSE x \in keys : TRUE
         IN  (IF first THEN <<>> ELSE <<",">>)
             \o <<NEWLINE>> \o Spaces(JsonIndent)
             \o JsonString(k) \o <<":", " ">> \o JsonString(m[k])
             \o JsonMembers(m, keys \ {k}, FALSE)

\* json.dump(file_hashes, f, indent=4)
json_dump(m) ==
    IF DOMAIN m = {} THEN <<"{", "}">>
    ELSE <<"{">> \o JsonMembers(m, DOMAIN m, TRUE) \o <<NEWLINE, "}">>

RECURSIVE SkipWs(_, _)
SkipWs(text, i) ==
    IF i <= Len(text) /\ text[i] \in {" ", NEWLINE} THEN SkipWs(text, i + 1) ELSE i

\* A decoder that takes the character behind a backslash as it is.
JsonUnescapeCharRaw(c) == c

JsonUnescapeChar(c) == IF c = "n" THEN NEWLINE ELSE c

\* The characters of a JSON string from position i (just behind the
\* opening quote) to its closing quote.
RECURSIVE ParseChars(_, _, _)
ParseChars(text, i, acc) ==
    IF text[i] = QUOTE THEN [value |-> acc, next |-> i + 1]
    ELSE IF text[i] = BACKSLASH
         THEN ParseChars(text, i + 2, Append(acc, JsonUnescapeChar(text[i + 1])))
    ELSE ParseChars(text, i + 1, Append(acc, text[i]))

RECURSIVE ParseMembers(_, _, _)
ParseMembers(text, i, acc) ==
    LET key == ParseChars(text, i + 1, <<>>)
        colon == SkipWs(text, key.next)
        val == ParseChars(text, SkipWs(text, colon + 1) + 1, <<>>)
        sep == SkipWs(text, val.next)
        got == Put(acc, key.value, val.value)
    IN  IF text[sep] = "," THEN ParseMembers(text, SkipWs(text, sep + 1), got)
        ELSE got

\* json.load(f) of an object of strings
json_load(text) ==
    LET open == SkipWs(text, 1)
        first == SkipWs(text, open + 1)
    IN  IF text[first] = "}" THEN EmptySnapshot
        ELSE ParseMembers(text, first, EmptySnapshot)

\* save_state(file_hashes): the new text of the state file
save_state(snapshot) == json_dump(snapshot)

\* load_state() on a state file with the given text
LoadStateFrom(file) == IF file = NoFile THEN EmptySnapshot ELSE json_load(file)

load_state == LoadStateFrom(stateFile)

\* ------------------------------------------------------------------- differ
\* compare_states with `modified` lacking its digest test.
compare_states_keys(old, new) ==
    [added |-> {f \in DOMAIN new : f \notin DOMAIN old},
     removed |-> {f \in DOMAIN old : f \notin DOMAIN new},
     modified |-> {f \in DOMAIN new : f \in DOMAIN old}]

\* compare_states with `modified` lacking its `f in old` test.
compare_states_loose(old, new) ==
    [added |-> {f \in DOMAIN new : f \notin DOMAIN old},
     removed |-> {f \in DOMAIN old : f \notin DOMAIN new},
     modified |-> {f \in DOMAIN new : f \notin DOMAIN old \/ new[f] # old[f]}]

\* compare_states(old, new); the three lists, whose order follows the
\* dicts' and is not kept, are sets.
compare_states(old, new) ==
    [added |-> {f \in DOMAIN new : f \notin DOMAIN old},
     removed |-> {f \in DOMAIN old : f \notin DOMAIN new},
     modified |-> {f \in DOMAIN new : f \in DOMAIN old /\ new[f] # old[f]}]

\* ------------------------------------------------------------- tree scanner
\* The directory a relative path lies in, <<>> for the watched directory.
ParentRel(p) == IF LastSlash(p) = 0 THEN <<>> ELSE Dirname(p)

FileExists(f) ==
    rootExists /\ (IF f = IGNORE_FILE THEN rules.exists ELSE files[f] # 0)

DirExists(top) ==
    rootExists /\ (top = directory \/ RelPath(top, directory) \in dirs)

Absolute(names) == [i \in 1..Len(names) |-> Join(directory, names[i])]

\* os.walk's `dirs` and `files` for the directory `top`, as absolute paths
\* (the code joins root and name itself).
SubdirsOf(top) ==
    Absolute(SelectSeq(DirOrder,
        LAMBDA d : d \in dirs /\ ParentRel(d) = RelPath(top, directory)))

FilesOf(top) ==
    Absolute(SelectSeq(FileOrder,
        LAMBDA f : FileExists(f) /\ ParentRel(f) = RelPath(top, directory)))

\* A pruning loop that keeps every subdirectory.
PruneNothing(subdirs, ignore) == subdirs

\* scan_directory's pruning loop: `pruned`, the subdirectories to descend into.
PruneDirs(subdirs, ignore) ==
    SelectSeq(subdirs, LAMBDA d : ~is_ignored(d, directory, ignore, TRUE))

\* A test that knows the ignore file only in the watched directory itself.
IsIgnoreFileAtRoot(filepath) == filepath = Join(directory, IGNORE_FILE)

\* os.path.basename(filepath) == IGNORE_FILE
IsIgnoreFile(filepath) == Basename(filepath) = IGNORE_FILE

NoCall == [path |-> <<>>, algorithm |-> "none", open |-> "none",
           result |-> [raised |-> "none", value |-> None]]

NewScanLog ==
    [entered |-> {}, listed |-> {}, vanished |-> {}, hashed |-> {}, lastHash |-> NoCall]

\* scan_directory is called: load_ignore_spec, file_hashes = {}, os.walk(directory).
ScanBegin ==
    /\ pc \in {"t_scan", "init_scan", "tick"}
    /\ spc = "idle"
    /\ spc' = "walk"
    /\ ignore_spec' = load_ignore_spec
    /\ file_hashes' = EmptySnapshot
    /\ walk' = <<directory>>
    /\ pending' = <<>>
    /\ scanlog' = NewScanLog
    /\ hist' = [hist EXCEPT !.prevFiles = hist.scanFiles, !.prevRules = hist.scanRules,
                            !.scanFiles = files, !.scanRules = rules,
                            !.rootMissing = ~rootExists]
    /\ UNCHANGED <<fsVars, stateFile, progVars, steps>>

\* os.walk yields the next directory; the loop body prunes its subdirectories.
\* A directory that cannot be listed yields nothing (os.walk ignores the error).
ScanListDir ==
    /\ spc = "walk"
    /\ pending = <<>>
    /\ walk # <<>>
    /\ LET top == Head(walk)
       IN  IF DirExists(top)
           THEN /\ walk' = PruneDirs(SubdirsOf(top), ignore_spec) \o Tail(walk)
                /\ pending' = FilesOf(top)
                /\ scanlog' = [scanlog EXCEPT
                                  !.entered = @ \cup {top},
                                  !.listed = @ \cup {FilesOf(top)[i] : i \in 1..Len(FilesOf(top))}]
           ELSE /\ walk' = Tail(walk)
                /\ pending' = <<>>
                /\ scanlog' = scanlog
    /\ UNCHANGED <<spc, ignore_spec, file_hashes, fsVars, stateFile, progVars, hist, steps>>

\* One round of `for filename in files`.
ScanHashFile ==
    /\ spc = "walk"
    /\ pending # <<>>
    /\ LET filepath == Head(pending)
           r == hash_file(filepath, args.hash)
           call == [path |-> filepath, algorithm |-> args.hash,
                    open |-> OpenError(filepath), result |-> r]
       IN  /\ pending' = Tail(pending)
           /\ IF IsIgnoreFile(filepath)
                 \/ is_ignored(filepath, directory, ignore_spec, FALSE)
              THEN UNCHANGED <<spc, file_hashes, scanlog, pc, raised>>
              ELSE IF r.raised # "none"
              THEN /\ spc' = "raised"
                   /\ raised' = r.raised
                   /\ pc' = "crashed"
                   /\ scanlog' = [scanlog EXCEPT !.lastHash = call]
                   /\ UNCHANGED file_hashes
              ELSE IF r.value # None
              THEN /\ file_hashes' = Put(file_hashes, filepath, r.value)
                   /\ scanlog' = [scanlog EXCEPT !.lastHash = call,
                                                 !.hashed = @ \cup {filepath}]
                   /\ UNCHANGED <<spc, pc, raised>>
              ELSE /\ scanlog' = [scanlog EXCEPT !.lastHash = call,
                                                 !.vanished = @ \cup {filepath}]
                   /\ UNCHANGED <<spc, file_hashes, pc, raised>>
    /\ UNCHANGED <<ignore_spec, walk, fsVars, stateFile, args,
                   previous_state, current_state, changes, hist, steps>>

\* os.walk is exhausted: `return file_hashes`.
ScanFinished == spc = "walk" /\ walk = <<>> /\ pending = <<>>

\* ---------------------------------------------------------- the environment
Bump(field) == steps' = [steps EXCEPT ![field] = @ + 1]

\* A file is created or overwritten.
WriteFile(f, c) ==
    /\ rootExists
    /\ ParentRel(f) = <<>> \/ ParentRel(f) \in dirs
    /\ f \notin unreadable
    /\ files[f] # c
    /\ files' = [files EXCEPT ![f] = c]
    /\ Bump("env")
    /\ UNCHANGED <<rootExists, dirs, unreadable, rules, PATHSPEC_AVAILABLE,
                   stateFile, scanVars, progVars, hist>>

\* A file is deleted.
DeleteFile(f) ==
    /\ rootExists
    /\ files[f] # 0
    /\ files' = [files EXCEPT ![f] = 0]
    /\ unreadable' = unreadable \ {f}
    /\ Bump("env")
    /\ UNCHANGED <<rootExists, dirs, rules, PATHSPEC_AVAILABLE,
                   stateFile, scanVars, progVars, hist>>

\* A file loses its read permission.
MakeUnreadable(f) ==
    /\ rootExists
    /\ files[f] # 0
    /\ f \notin unreadable
    /\ unreadable' = unreadable \cup {f}
    /\ Bump("env")
    /\ UNCHANGED <<rootExists, dirs, files, rules, PATHSPEC_AVAILABLE,
                   stateFile, scanVars, progVars, hist>>

\* The .fimignore of the watched directory is written or deleted.
WriteRules(r) ==
    /\ rootExists
    /\ rules # r
    /\ rules' = r
    /\ Bump("env")
    /\ UNCHANGED <<rootExists, dirs, files, unreadable, PATHSPEC_AVAILABLE,
                   stateFile, scanVars, progVars, hist>>

\* The watched directory is deleted with all that is in it.
DeleteRoot ==
    /\ rootExists
    /\ rootExists' = FALSE
    /\ dirs' = {}
    /\ files' = [f \in FilePaths |-> 0]
    /\ unreadable' = {}
    /\ rules' = NoRulesFile
    /\ Bump("env")
    /\ UNCHANGED <<PATHSPEC_AVAILABLE, stateFile, scanVars, progVars, hist>>

\* ------------------------------------------------------------ the test driver
\* test_scan_compare_add_modify_remove: `x = scan_directory(root, alg)` returns,
\* and from the second scan on compare_states(older, newer) follows.
TestTake ==
    /\ pc = "t_scan"
    /\ ScanFinished
    /\ spc' = "idle"
    /\ previous_state' = current_state
    /\ current_state' = file_hashes
    /\ changes' = IF steps.scans = 0 THEN NoChanges
                  ELSE compare_states(current_state, file_hashes)
    /\ pc' = "t_mutate"
    /\ Bump("scans")
    /\ UNCHANGED <<fsVars, stateFile, ignore_spec, walk, pending, file_hashes,
                   scanlog, args, raised, hist>>

\* The test goes on to its next scan.
TestNext ==
    /\ pc = "t_mutate"
    /\ steps.scans < MaxScans
    /\ pc' = "t_scan"
    /\ UNCHANGED <<fsVars, stateFile, scanVars, args, raised,
                   previous_state, current_state, changes, hist, steps>>

\* ------------------------------------------------------------ main / monitor
\* A main that goes on without the os.path.isdir test.
MainNoCheck ==
    /\ pc = "main"
    /\ pc' = IF args.init THEN "init_scan" ELSE "monitor"
    /\ UNCHANGED <<fsVars, stateFile, scanVars, args, raised,
                   previous_state, current_state, changes, hist, steps>>

\* main: `if not os.path.isdir(args.directory): return`, then the mode.
MainCheck ==
    /\ pc = "main"
    /\ pc' = IF ~rootExists THEN "exit"
             ELSE IF args.init THEN "init_scan" ELSE "monitor"
    /\ UNCHANGED <<fsVars, stateFile, scanVars, args, raised,
                   previous_state, current_state, changes, hist, steps>>

\* main --init: `state = scan_directory(...)` returns; save_state(state).
InitSave ==
    /\ pc = "init_scan"
    /\ ScanFinished
    /\ spc' = "idle"
    /\ current_state' = file_hashes
    /\ stateFile' = save_state(file_hashes)
    /\ pc' = "exit"
    /\ UNCHANGED <<fsVars, ignore_spec, walk, pending, file_hashes, scanlog,
                   args, raised, previous_state, changes, hist, steps>>

\* monitor: previous_state = load_state()
MonitorLoad ==
    /\ pc = "monitor"
    /\ previous_state' = load_state
    /\ pc' = "tick"
    /\ hist' = [hist EXCEPT !.own = load_state]
    /\ UNCHANGED <<fsVars, stateFile, scanVars, args, raised,
                   current_state, changes, steps>>

\* monitor: `current_state = scan_directory(...)` returns; compare_states and
\* the report of what it found.
MonitorCompare ==
    /\ pc = "tick"
    /\ ScanFinished
    /\ spc' = "idle"
    /\ current_state' = file_hashes
    /\ changes' = compare_states(previous_state, file_hashes)
    /\ pc' = "save"
    /\ UNCHANGED <<fsVars, stateFile, ignore_spec, walk, pending, file_hashes,
                   scanlog, args, raised, previous_state, hist, steps>>

\* A monitor that forgets to write the state file.
MonitorSaveNothing ==
    /\ pc = "save"
    /\ previous_state' = current_state
    /\ pc' = "sleep"
    /\ hist' = [hist EXCEPT !.own = current_state]
    /\ UNCHANGED <<fsVars, stateFile, scanVars, args, raised,
                   current_state, changes, steps>>

\* monitor: save_state(current_state); previous_state = current_state
MonitorSave ==
    /\ pc = "save"
    /\ stateFile' = save_state(current_state)
    /\ previous_state' = current_state
    /\ pc' = "sleep"
    /\ hist' = [hist EXCEPT !.own = current_state]
    /\ UNCHANGED <<fsVars, scanVars, args, raised, current_state, changes, steps>>

\* monitor: time.sleep(interval) returns and the loop goes round.
MonitorWake ==
    /\ pc = "sleep"
    /\ steps.ticks < MaxTicks
    /\ pc' = "tick"
    /\ Bump("ticks")
    /\ UNCHANGED <<fsVars, stateFile, scanVars, args, raised,
                   previous_state, current_state, changes, hist>>

\* Snapshots another run of the program may save into the same working
\* directory (the state file is keyed by absolute path, for any directory).
OtherSnapshots ==
    { EmptySnapshot,
      Put(EmptySnapshot, Join(directory, FileA), hexdigest("sha256", 1)),
      Put(EmptySnapshot, <<"/", "v", "/", "a">>, hexdigest("sha256", 1)) }

\* Another run (main --init) saves its baseline.
OtherRunSave(s) ==
    /\ stateFile # save_state(s)
    /\ stateFile' = save_state(s)
    /\ Bump("env")
    /\ UNCHANGED <<fsVars, scanVars, progVars, hist>>

\* ------------------------------------------------------------ specifications
NoHist ==
    [prevFiles |-> [f \in FilePaths |-> 0], prevRules |-> NoRulesFile,
     scanFiles |-> [f \in FilePaths |-> 0], scanRules |-> NoRulesFile,
     rootMissing |-> FALSE, own |-> EmptySnapshot]

NoSteps == [env |-> 0, scans |-> 0, ticks |-> 0]

ScanIdle ==
    /\ spc = "idle"
    /\ ignore_spec = NoRules
    /\ walk = <<>>
    /\ pending = <<>>
    /\ file_hashes = EmptySnapshot
    /\ scanlog = NewScanLog

ProgIdle ==
    /\ raised = "none"
    /\ previous_state = EmptySnapshot
    /\ current_state = EmptySnapshot
    /\ changes = NoChanges
    /\ hist = NoHist
    /\ steps = NoSteps

\* The program is started on a directory that holds at most the file a.
Init ==
    /\ rootExists \in BOOLEAN
    /\ dirs = {}
    /\ files \in {[f \in FilePaths |-> IF f = FileA /\ rootExists THEN c ELSE 0] : c \in 0..1}
    /\ unreadable = {}
    /\ rules = NoRulesFile
    /\ PATHSPEC_AVAILABLE = FALSE
    /\ stateFile \in {NoFile} \cup {save_state(s) : s \in OtherSnapshots}
    /\ args \in [init : BOOLEAN, hash : {"sha256"}]
    /\ pc = "main"
    /\ ScanIdle
    /\ ProgIdle

EnvMain ==
    /\ steps.env < MaxEnvSteps
    /\ \/ \E c \in 1..MaxContent : WriteFile(FileA, c)
       \/ DeleteFile(FileA)
       \/ DeleteRoot
       \/ \E s \in OtherSnapshots : OtherRunSave(s)

Next ==
    \/ MainCheck
    \/ ScanBegin
    \/ ScanListDir
    \/ ScanHashFile
    \/ InitSave
    \/ MonitorLoad
    \/ MonitorCompare
    \/ MonitorSave
    \/ MonitorWake
    \/ EnvMain

Spec == Init /\ [][Next]_vars

\* One scan of a full tree, under every rule file, engine and algorithm,
\* while files vanish or become unreadable.
InitScan ==
    /\ rootExists = TRUE
    /\ dirs = DirPaths
    /\ files = [f \in FilePaths |-> 1]
    /\ unreadable = {}
    /\ rules \in RuleFiles \cup {NoRulesFile}
    /\ PATHSPEC_AVAILABLE \in BOOLEAN
    /\ stateFile = NoFile
    /\ args \in [init : {FALSE}, hash : Algorithms]
    /\ pc = "t_scan"
    /\ ScanIdle
    /\ ProgIdle

EnvScan ==
    /\ steps.env < MaxScanEnvSteps
    /\ \E f \in FilePaths : DeleteFile(f) \/ MakeUnreadable(f)

NextScan ==
    \/ ScanBegin
    \/ ScanListDir
    \/ ScanHashFile
    \/ TestTake
    \/ EnvScan

SpecScan == InitScan /\ [][NextScan]_vars

\* The test's sequence: scans of a tree that starts empty and changes only
\* between scans.
InitSeq ==
    /\ rootExists = TRUE
    /\ dirs = DirPaths
    /\ files = [f \in FilePaths |-> 0]
    /\ unreadable = {}
    /\ rules = NoRulesFile
    /\ PATHSPEC_AVAILABLE \in BOOLEAN
    /\ stateFile = NoFile
    /\ args = [init |-> FALSE, hash |-> "sha256"]
    /\ pc = "t_scan"
    /\ ScanIdle
    /\ ProgIdle

\* The .fimignore contents the test's tree goes through.
SeqRuleFiles ==
    { NoRulesFile,
      [exists |-> TRUE, lines |-> <<LineDirB, LineNegBK>>],
      [exists |-> TRUE, lines |-> <<LineComment, LineK>>] }

EnvSeq ==
    /\ pc = "t_mutate"
    /\ steps.env < MaxSeqChanges
    /\ \/ \E f \in FilePaths : \E c \in 1..MaxContent : WriteFile(f, c)
       \/ \E f \in FilePaths : DeleteFile(f)
       \/ \E r \in SeqRuleFiles : WriteRules(r)

NextSeq ==
    \/ ScanBegin
    \/ ScanListDir
    \/ ScanHashFile
    \/ TestTake
    \/ TestNext
    \/ EnvSeq

SpecSeq == InitSeq /\ [][NextSeq]_vars

\* compare_states on its own: every pair of snapshots of four paths.
DiffPaths == {Join(directory, f) : f \in FilePaths}
DiffDigests == {hexdigest("sha256", c) : c \in 1..MaxContent}
DiffSnapshots == UNION {[D -> DiffDigests] : D \in SUBSET DiffPaths}

InitDiff ==
    /\ rootExists = TRUE
    /\ dirs = {}
    /\ files = [f \in FilePaths |-> 0]
    /\ unreadable = {}
    /\ rules = NoRulesFile
    /\ PATHSPEC_AVAILABLE = FALSE
    /\ stateFile = NoFile
    /\ args = [init |-> FALSE, hash |-> "sha256"]
    /\ pc = "d_call"
    /\ ScanIdle
    /\ raised = "none"
    /\ previous_state \in DiffSnapshots
    /\ current_state \in DiffSnapshots
    /\ changes = NoChanges
    /\ hist = NoHist
    /\ steps = NoSteps

\* added, removed, modified = compare_states(old, new)
DiffCall ==
    /\ pc = "d_call"
    /\ changes' = compare_states(previous_state, current_state)
    /\ pc' = "d_done"
    /\ UNCHANGED <<fsVars, stateFile, scanVars, args, raised,
                   previous_state, current_state, hist, steps>>

NextDiff == DiffCall

SpecDiff == InitDiff /\ [][NextDiff]_vars

\* save_state then load_state on their own: snapshots whose keys and values
\* hold the characters JSON escapes or reads as syntax.
StoreKeys ==
    { <<"a">>, <<>>, <<QUOTE>>, <<"a", BACKSLASH>>, <<BACKSLASH, "n">>,
      <<NEWLINE>>, <<",", " ">>, <<"}", ":">> }
StoreValues == { hexdigest("sha256", 1), <<>>, <<QUOTE, ":">>, <<BACKSLASH, NEWLINE>> }
StoreSnapshots ==
    UNION {[D -> StoreValues] : D \in {K \in SUBSET StoreKeys : Cardinality(K) <= MaxStoreKeys}}

InitStore ==
    /\ rootExists = TRUE
    /\ dirs = {}
    /\ files = [f \in FilePaths |-> 0]
    /\ unreadable = {}
    /\ rules = NoRulesFile
    /\ PATHSPEC_AVAILABLE = FALSE
    /\ stateFile = NoFile
    /\ args = [init |-> FALSE, hash |-> "sha256"]
    /\ pc = "s_save"
    /\ ScanIdle
    /\ raised = "none"
    /\ previous_state = EmptySnapshot
    /\ current_state \in StoreSnapshots
    /\ changes = NoChanges
    /\ hist = NoHist
    /\ steps = NoSteps

\* save_state(s)
StoreSave ==
    /\ pc = "s_save"
    /\ stateFile' = save_state(current_state)
    /\ pc' = "s_load"
    /\ UNCHANGED <<fsVars, scanVars, args, raised,
                   previous_state, current_state, changes, hist, steps>>

\* load_state()
StoreLoad ==
    /\ pc = "s_load"
    /\ previous_state' = load_state
    /\ pc' = "s_done"
    /\ UNCHANGED <<fsVars, stateFile, scanVars, args, raised,
                   current_state, changes, hist, steps>>

NextStore == StoreSave \/ StoreLoad

SpecStore == InitStore /\ [][NextStore]_vars

\* ------------------------------------------------------------------- claims
Keys(m) == DOMAIN m

\* C1: compare_states(old, new) returns Added = the keys of new that are not
\* keys of old, Removed = the keys of old that are not keys of new, Modified
\* = the keys of both whose digests differ; a key of both with the same
\* digest is in none of the three.
C1_CompareExact ==
    pc = "d_done" =>
        /\ changes.added \cup changes.removed \cup changes.modified \subseteq DiffPaths
        /\ \A p \in DiffPaths :
            LET inOld == p \in Keys(previous_state)
                inNew == p \in Keys(current_state)
            IN  /\ p \in changes.added <=> (inNew /\ ~inOld)
                /\ p \in changes.removed <=> (inOld /\ ~inNew)
                /\ p \in changes.modified <=>
                       (inOld /\ inNew /\ previous_state[p] # current_state[p])
                /\ (inOld /\ inNew /\ previous_state[p] = current_state[p]) =>
                       p \notin changes.added \cup changes.removed \cup changes.modified

\* A comparison that finds an added, a removed, a modified and an unchanged path.
C1_Witness ==
    /\ pc = "d_done"
    /\ changes.added # {}
    /\ changes.removed # {}
    /\ changes.modified # {}
    /\ \E p \in Keys(previous_state) \cap Keys(current_state) :
           previous_state[p] = current_state[p]

\* C7: the Added, Removed and Modified results of compare_states(old, new)
\* are pairwise disjoint.
C7_Disjoint ==
    pc = "d_done" =>
        /\ changes.added \cap changes.removed = {}
        /\ changes.added \cap changes.modified = {}
        /\ changes.removed \cap changes.modified = {}

\* A comparison none of whose three results is empty.
C7_Witness ==
    /\ pc = "d_done"
    /\ Cardinality(changes.added) >= 1
    /\ Cardinality(changes.removed) >= 1
    /\ Cardinality(changes.modified) >= 2

\* C8: save_state(s) followed by load_state() returns a snapshot equal to s:
\* the same keys, and the same digest for every key.
C8_RoundTrip ==
    pc = "s_done" =>
        /\ Keys(previous_state) = Keys(current_state)
        /\ \A k \in Keys(current_state) : previous_state[k] = current_state[k]

\* A snapshot with a quote and a line break in its keys went through the file.
C8_Witness ==
    /\ pc = "s_done"
    /\ <<QUOTE>> \in Keys(current_state)
    /\ <<NEWLINE>> \in Keys(current_state)
    /\ stateFile # NoFile

\* C9: hash_file with an unsupported algorithm name raises ValueError,
\* whether the file exists, is missing or is unreadable; it returns neither
\* a digest nor None.
C9_InvalidAlgorithm ==
    (scanlog.lastHash # NoCall /\ scanlog.lastHash.algorithm \notin SupportedAlgorithms) =>
        /\ scanlog.lastHash.result.raised = "ValueError"
        /\ raised = "ValueError"
        /\ spc = "raised"
        /\ scanlog.lastHash.path \notin Keys(file_hashes)
        /\ scanlog.lastHash.path \notin scanlog.vanished

\* hash_file was called with "notahash" on a file that had been deleted.
C9_Witness ==
    /\ scanlog.lastHash.algorithm = "notahash"
    /\ scanlog.lastHash.open = "FileNotFoundError"

\* The directories above a file, the watched directory left out.
AncestorDirs(f) == {d \in DirPaths : StartsWith(f, d \o <<SLASH>>)}

Flagged(d) == is_ignored(Join(directory, d), directory, ignore_spec, TRUE)

\* C4: a directory that the ignore matcher flags is never entered, and no
\* file below it is a key of the snapshot, whether or not the file itself
\* matches a pattern.
C4_PrunedSubtree ==
    \A d \in DirPaths :
        Flagged(d) =>
            /\ Join(directory, d) \notin scanlog.entered
            /\ \A e \in scanlog.entered : ~StartsWith(e, Join(directory, d) \o <<SLASH>>)
            /\ \A k \in Keys(file_hashes) \cup scanlog.listed :
                   ~StartsWith(k, Join(directory, d) \o <<SLASH>>)

\* A finished scan under gitignore rules that flag the directory b and
\* un-ignore the file b/k, which exists.
C4_Witness ==
    /\ pc = "t_mutate"
    /\ ignore_spec.engine = "pathspec"
    /\ Flagged(DirB)
    /\ ~is_ignored(Join(directory, FileBK), directory, ignore_spec, FALSE)
    /\ files[FileBK] # 0
    /\ Keys(current_state) # {}

\* C5: when a listed file is deleted or becomes unreadable before it is
\* hashed, the scan does not raise, the snapshot has no entry for that file,
\* and it has an entry for every other file that was listed and is neither
\* the ignore file nor ignored.
C5_VanishedFile ==
    /\ args.hash \in SupportedAlgorithms => (raised = "none" /\ spc # "raised")
    /\ scanlog.vanished \cap Keys(file_hashes) = {}
    /\ (pc = "t_mutate" /\ args.hash \in SupportedAlgorithms) =>
           Keys(current_state) =
               {f \in scanlog.listed :
                    /\ Basename(f) # IGNORE_FILE
                    /\ ~is_ignored(f, directory, ignore_spec, FALSE)} \ scanlog.vanished

\* A finished scan that found one listed file deleted and another unreadable,
\* and hashed a third.
C5_Witness ==
    /\ pc = "t_mutate"
    /\ \E f \in scanlog.vanished : files[RelPath(f, directory)] = 0
    /\ \E f \in scanlog.vanished : RelPath(f, directory) \in unreadable
    /\ Keys(current_state) # {}

\* C6: no snapshot a scan produces has a key whose basename is .fimignore,
\* at any depth, whatever rules are loaded.
C6_NoIgnoreFile ==
    \A k \in Keys(file_hashes) \cup Keys(current_state) : Basename(k) # IGNORE_FILE

\* A finished scan, with no rules loaded, that listed the .fimignore of the
\* watched directory and the one in b.
C6_Witness ==
    /\ pc = "t_mutate"
    /\ ignore_spec = NoRules
    /\ Join(directory, IGNORE_FILE) \in scanlog.listed
    /\ Join(directory, FileBIgn) \in scanlog.listed
    /\ Keys(current_state) # {}

\* Every file the tree may hold, the .fimignore of the watched directory
\* among them, as the scan before the last (prev) and the last scan (scan)
\* found it when they started.
AllFiles == FilePaths \cup {IGNORE_FILE}

ExistedAt(f, fls, rls) == IF f = IGNORE_FILE THEN rls.exists ELSE fls[f] # 0

SameContent(f) ==
    IF f = IGNORE_FILE THEN hist.prevRules.lines = hist.scanRules.lines
    ELSE hist.prevFiles[f] = hist.scanFiles[f]

PathsOf(S) == {Join(directory, f) : f \in S}

\* A file a scan of the tree (fls, rls) has to report: it exists, it is not
\* an ignore file, and neither it nor a directory above it is ignored by
\* the rules of rls.
InScope(f, fls, rls) ==
    LET spec == LoadIgnoreSpec(TRUE, rls, PATHSPEC_AVAILABLE)
    IN  /\ f \in FilePaths
        /\ fls[f] # 0
        /\ Basename(f) # IGNORE_FILE
        /\ ~is_ignored(Join(directory, f), directory, spec, FALSE)
        /\ \A d \in AncestorDirs(f) : ~is_ignored(Join(directory, d), directory, spec, TRUE)

\* C2 as stated: over scans of a tree that changes only between scans, the
\* diff of two consecutive snapshots has a path in Added exactly when the
\* file was created since the previous scan, in Modified exactly when it
\* existed at both scans with different content, in Removed exactly when it
\* was deleted; the scan of an empty directory is the empty snapshot.
C2_AsStated ==
    /\ (pc = "t_mutate" /\ steps.scans >= 2) =>
        /\ changes.added = PathsOf({f \in AllFiles :
               ~ExistedAt(f, hist.prevFiles, hist.prevRules)
               /\ ExistedAt(f, hist.scanFiles, hist.scanRules)})
        /\ changes.modified = PathsOf({f \in AllFiles :
               /\ ExistedAt(f, hist.prevFiles, hist.prevRules)
               /\ ExistedAt(f, hist.scanFiles, hist.scanRules)
               /\ ~SameContent(f)})
        /\ changes.removed = PathsOf({f \in AllFiles :
               ExistedAt(f, hist.prevFiles, hist.prevRules)
               /\ ~ExistedAt(f, hist.scanFiles, hist.scanRules)})
    /\ (pc = "t_mutate" /\ \A f \in AllFiles : ~ExistedAt(f, hist.scanFiles, hist.scanRules)) =>
           current_state = EmptySnapshot

\* C2 as amended: the same, for the files in scope of each scan (existing,
\* not named .fimignore, not excluded by the rules that scan loaded): Added
\* = in scope now and not at the previous scan, Removed = in scope at the
\* previous scan and not now, Modified = in scope at both with different
\* content; the scan of an empty directory is the empty snapshot.
C2_InScopeDiff ==
    /\ (pc = "t_mutate" /\ steps.scans >= 2) =>
        /\ changes.added = PathsOf({f \in AllFiles :
               ~InScope(f, hist.prevFiles, hist.prevRules)
               /\ InScope(f, hist.scanFiles, hist.scanRules)})
        /\ changes.modified = PathsOf({f \in AllFiles :
               /\ InScope(f, hist.prevFiles, hist.prevRules)
               /\ InScope(f, hist.scanFiles, hist.scanRules)
               /\ ~SameContent(f)})
        /\ changes.removed = PathsOf({f \in AllFiles :
               InScope(f, hist.prevFiles, hist.prevRules)
               /\ ~InScope(f, hist.scanFiles, hist.scanRules)})
    /\ (pc = "t_mutate" /\ \A f \in AllFiles : ~ExistedAt(f, hist.scanFiles, hist.scanRules)) =>
           current_state = EmptySnapshot

\* Between two scans one file was overwritten and reported as modified,
\* and another was created and is not reported as added.
C2_Witness ==
    /\ pc = "t_mutate"
    /\ steps.scans >= 2
    /\ changes.modified # {}
    /\ \E f \in AllFiles :
           /\ ~ExistedAt(f, hist.prevFiles, hist.prevRules)
           /\ ExistedAt(f, hist.scanFiles, hist.scanRules)
           /\ Join(directory, f) \notin changes.added

\* C3 as stated: when the watched directory is missing as a scan is about to
\* start (at --init, at the first tick or at a later one), the scan hands
\* no snapshot to its caller and a state file saved earlier is left as it was.
C3_AsStated ==
    [][(hist.rootMissing /\ stateFile # NoFile /\ pc' # pc) =>
           /\ stateFile' = stateFile
           /\ ~(pc = "tick" /\ pc' = "save")]_vars

\* C3 as amended: when the watched directory is missing as main checks it,
\* the program ends with no scan started, no snapshot and the state file
\* left as it was; a directory that goes missing after the check is scanned
\* as an empty tree, and the empty snapshot is what --init or the tick saves.
C3_CheckedAtStart ==
    /\ [][(pc = "main" /\ ~rootExists /\ pc' # pc) =>
              /\ pc' = "exit"
              /\ spc' = "idle"
              /\ UNCHANGED <<stateFile, current_state, previous_state, file_hashes>>]_vars
    /\ [][(hist.rootMissing /\ ScanFinished /\ pc' # pc) =>
              current_state' = EmptySnapshot]_vars
    /\ [][(hist.rootMissing /\ pc \in {"save", "init_scan"} /\ pc' \in {"sleep", "exit"}) =>
              stateFile' = save_state(EmptySnapshot)]_vars

\* The program was started on a missing directory, beside a state file
\* that holds a baseline, and has ended.
C3_Witness ==
    /\ pc = "exit"
    /\ ~rootExists
    /\ steps.env = 0
    /\ spc = "idle"
    /\ stateFile \notin {NoFile, save_state(EmptySnapshot)}

\* C10 as stated: every tick computes the diff between the snapshot in the
\* state file at that moment and the fresh scan, then saves the fresh scan,
\* so that between ticks the comparison point of the next tick is what the
\* state file holds, also when another run writes the file.
C10_AsStated ==
    /\ [][(pc = "tick" /\ pc' = "save") =>
              changes' = compare_states(LoadStateFrom(stateFile), current_state')]_vars
    /\ [][(pc = "save" /\ pc' = "sleep") => LoadStateFrom(stateFile') = current_state]_vars
    /\ [][(pc = "sleep") => previous_state' = LoadStateFrom(stateFile')]_vars

\* C10 as amended: every tick computes the diff between the monitor's own
\* previous_state (what load_state returned as the monitor started, later
\* the snapshot it saved itself at the end of the tick before) and the fresh
\* scan, then saves the fresh scan, so that the state file holds the
\* snapshot just scanned as the tick ends; the monitor does not read the
\* state file again.
C10_OwnBaseline ==
    /\ [][(pc = "tick" /\ pc' = "save") =>
              /\ previous_state = hist.own
              /\ changes' = compare_states(hist.own, current_state')]_vars
    /\ [][(pc = "save" /\ pc' = "sleep") =>
              /\ LoadStateFrom(stateFile') = current_state
              /\ previous_state' = current_state
              /\ hist.own' = current_state]_vars
    /\ [][(pc = "sleep" /\ stateFile' # stateFile) => previous_state' = previous_state]_vars

\* A later tick has compared its scan with the monitor's own baseline while
\* the state file, written by another run since, holds a different one.
C10_Witness ==
    /\ pc = "save"
    /\ steps.ticks >= 1
    /\ LoadStateFrom(stateFile) # previous_state
    /\ changes # compare_states(LoadStateFrom(stateFile), current_state)

====
